---- MODULE Spec2Model ----
(***************************************************************************)
(* A model of the altcoins-monitor price alerting bot.                     *)
(*   variant A: src/main.go            (timer de-duplication, Telegram)    *)
(*   variant B: src/unnamed/part_000   (log only)                          *)
(*                                                                         *)
(* float64 values are modelled bit-exactly: a finite float is a sign, a    *)
(* 53-bit mantissa held as base-2^15 limbs (least significant first) and a *)
(* binary exponent, and every conversion and product rounds to nearest,    *)
(* ties to even, as IEEE 754 binary64 does.                                *)
(***************************************************************************)
EXTENDS Integers, Sequences, FiniteSets, Bags, TLC

\* ------------------------------------------------------------------------
\* Natural numbers of arbitrary size: sequences of limbs, least significant
\* first, no most-significant zero limb; <<>> is zero.
\* ------------------------------------------------------------------------
LimbBase == 32768
LimbBits == 15

\* The recursions over limbs halve the sequence, so that their depth is the
\* logarithm of its length.  A value that is used more than once is handed on
\* as the argument of an operator.
BigNorm(x) ==
    LET set == {i \in DOMAIN x : x[i] # 0}
    IN  IF set = {} THEN <<>>
        ELSE SubSeq(x, 1, CHOOSE i \in set : \A j \in set : j <= i)

RECURSIVE BigFromInt(_)
BigFromInt(n) ==
    IF n = 0 THEN <<>> ELSE <<n % LimbBase>> \o BigFromInt(n \div LimbBase)

\* The number of the limbs res.q with the limb res.carry above them.
WithCarry(res) == BigNorm(res.q \o <<res.carry>>)

\* The limbs of x * c + carry, as many as x has, and the carry out of them.
RECURSIVE BigMulSmallC(_, _, _)
BigMulSmallC(x, c, carry) ==
    LET n  == Len(x)
        h  == n \div 2
        v  == x[1] * c + carry
        lo == BigMulSmallC(SubSeq(x, 1, h), c, carry)
        hi == BigMulSmallC(SubSeq(x, h + 1, n), c, lo.carry)
    IN  IF n = 0 THEN [q |-> <<>>, carry |-> carry]
        ELSE IF n = 1 THEN [q |-> <<v % LimbBase>>, carry |-> v \div LimbBase]
        ELSE [q |-> lo.q \o hi.q, carry |-> hi.carry]

BigMulSmall(x, c) == WithCarry(BigMulSmallC(x, c, 0))

\* The limbs of x + y + carry for x and y of one length, and the carry out.
RECURSIVE BigAddC(_, _, _)
BigAddC(x, y, carry) ==
    LET n  == Len(x)
        h  == n \div 2
        v  == x[1] + y[1] + carry
        lo == BigAddC(SubSeq(x, 1, h), SubSeq(y, 1, h), carry)
        hi == BigAddC(SubSeq(x, h + 1, n), SubSeq(y, h + 1, n), lo.carry)
    IN  IF n = 0 THEN [q |-> <<>>, carry |-> carry]
        ELSE IF n = 1 THEN [q |-> <<v % LimbBase>>, carry |-> v \div LimbBase]
        ELSE [q |-> lo.q \o hi.q, carry |-> hi.carry]

\* x with zero limbs above it, n limbs in all.
PadTo(x, n) == x \o [i \in 1..(n - Len(x)) |-> 0]

BigAdd(x, y) ==
    LET n == IF Len(x) > Len(y) THEN Len(x) ELSE Len(y)
    IN  WithCarry(BigAddC(PadTo(x, n), PadTo(y, n), 0))

RECURSIVE BigMul(_, _)
BigMul(x, y) ==
    IF x = <<>> \/ y = <<>> THEN <<>>
    ELSE BigAdd(BigMulSmall(x, y[1]),
                LET r == BigMul(x, Tail(y)) IN IF r = <<>> THEN <<>> ELSE <<0>> \o r)

\* Quotient (as many limbs as x has) and remainder of rem * LimbBase^Len(x)
\* + x by a divisor d <= LimbBase, for rem < d.  The upper half is divided
\* first, and its remainder goes into the division of the lower half.
RECURSIVE BigDivSmallR(_, _, _)
BigDivSmallR(x, d, rem) ==
    LET n  == Len(x)
        h  == n \div 2
        v  == rem * LimbBase + x[1]
        hi == BigDivSmallR(SubSeq(x, h + 1, n), d, rem)
        lo == BigDivSmallR(SubSeq(x, 1, h), d, hi.r)
    IN  IF n = 0 THEN [q |-> <<>>, r |-> rem]
        ELSE IF n = 1 THEN [q |-> <<v \div d>>, r |-> v % d]
        ELSE IF hi.r < d THEN [q |-> lo.q \o hi.q, r |-> lo.r]
        ELSE [q |-> <<>>, r |-> d]

\* The quotient res.q as a number, with the remainder.
Quotient(res) == [q |-> BigNorm(res.q), r |-> res.r]

BigDivSmall(x, d) == Quotient(BigDivSmallR(x, d, 0))

RECURSIVE Pow2(_)
Pow2(n) == IF n = 0 THEN 1 ELSE 2 * Pow2(n - 1)

RECURSIVE IntBitLen(_)
IntBitLen(n) == IF n = 0 THEN 0 ELSE 1 + IntBitLen(n \div 2)

BigBitLen(x) ==
    IF x = <<>> THEN 0 ELSE (Len(x) - 1) * LimbBits + IntBitLen(x[Len(x)])

BigShiftLeft(x, s) ==
    IF x = <<>> THEN <<>>
    ELSE [i \in 1..(s \div LimbBits) |-> 0] \o BigMulSmall(x, Pow2(s % LimbBits))

\* The quotient dv.q; sticky tells whether something non-zero was lost, before
\* the division (lost) or as its remainder.
WithSticky(lost, dv) == [q |-> dv.q, sticky |-> lost \/ dv.r # 0]

\* x shifted right by s bits; sticky tells whether a non-zero bit was lost.
BigShiftRight(x, s) ==
    LET drop == s \div LimbBits
        kept == IF drop >= Len(x) THEN <<>> ELSE SubSeq(x, drop + 1, Len(x))
    IN  WithSticky(\E i \in 1..drop : i <= Len(x) /\ x[i] # 0,
                   BigDivSmall(kept, Pow2(s % LimbBits)))

\* -1, 0 or 1 as the first i limbs of x are below, equal to or above those
\* of y: the most significant limb that differs decides.
BigCmpAt(x, y, i) ==
    LET set == {j \in 1..i : x[j] # y[j]}
        top == CHOOSE j \in set : \A l \in set : l <= j
    IN  IF set = {} THEN 0
        ELSE IF x[top] < y[top] THEN -1
        ELSE 1

\* -1, 0 or 1 as x is below, equal to or above y.
BigCmp(x, y) ==
    IF Len(x) < Len(y) THEN -1
    ELSE IF Len(x) > Len(y) THEN 1
    ELSE BigCmpAt(x, y, Len(x))

\* ------------------------------------------------------------------------
\* float64: [k, neg, m, e].  A finite value (k = "fin") is (-1)^neg * m * 2^e
\* with 2^52 <= m < 2^53 (normal), or m < 2^52 and e = MinExp (subnormal),
\* or zero when m = <<>>; k = "inf" is an infinity and k = "nan" no number.
\* ------------------------------------------------------------------------
MantBits == 53
MinExp == -1074
MaxExp == 1024

FloatZero == [k |-> "fin", neg |-> FALSE, m |-> <<>>, e |-> 0]

FloatInf(neg) == [k |-> "inf", neg |-> neg, m |-> <<>>, e |-> 0]

FloatNaN == [k |-> "nan", neg |-> FALSE, m |-> <<>>, e |-> 0]

BigIsOdd(x) == x # <<>> /\ x[1] % 2 = 1

\* The float64 of mantissa m and exponent e: a zero when m is zero and an
\* infinity when m * 2^e is 2^MaxExp or more.
Finite(neg, m, e) ==
    IF m = <<>> THEN [FloatZero EXCEPT !.neg = neg]
    ELSE IF BigBitLen(m) + e > MaxExp THEN FloatInf(neg)
    ELSE [k |-> "fin", neg |-> neg, m |-> m, e |-> e]

\* A mantissa that rounding up has taken to 2^MantBits goes back to MantBits
\* bits.
Renormalise(neg, m, e) ==
    IF BigBitLen(m) > MantBits THEN Finite(neg, BigDivSmall(m, 2).q, e + 1)
    ELSE Finite(neg, m, e)

\* half * 2^e, rounded up when the bit after half (guard) is set and either
\* a bit after it is (sticky) or half is odd.
RoundHalf(neg, half, guard, sticky, e) ==
    Renormalise(neg,
                IF guard /\ (sticky \/ BigIsOdd(half)) THEN BigAdd(half, <<1>>)
                ELSE half,
                e)

\* sr.q holds the mantissa and the guard bit after it.
RoundShifted(neg, sr, sticky0, e) ==
    RoundHalf(neg, BigDivSmall(sr.q, 2).q, BigIsOdd(sr.q), sticky0 \/ sr.sticky, e)

\* q * 2^e with the exponent t of the result: exact when t <= e.
RoundAt(neg, q, sticky0, e, t) ==
    IF t <= e THEN Finite(neg, BigShiftLeft(q, e - t), t)
    ELSE RoundShifted(neg, BigShiftRight(q, t - e - 1), sticky0, t)

\* The float64 nearest to q * 2^e, ties to even; sticky0 tells that the exact
\* value lies strictly between q * 2^e and (q + 1) * 2^e, and then q carries
\* more than MantBits + 1 bits.  A value of 2^MaxExp or more is an infinity.
RoundNearestEven(neg, q, sticky0, e) ==
    LET L == BigBitLen(q)
    IN  IF q = <<>> THEN [FloatZero EXCEPT !.neg = neg]
        ELSE IF L + e > MaxExp THEN FloatInf(neg)
        ELSE RoundAt(neg, q, sticky0, e,
                     IF L + e - MantBits > MinExp THEN L + e - MantBits ELSE MinExp)

\* Decimal exponents beyond these give an infinity or a zero whatever the
\* digits are (a string of n digits is below 10^n).
MaxDecExp == 400
MinDecExp == -400

\* Bits of the quotient kept beyond the first bit of a decimal conversion.
ScaleBits == 64

\* x \div 10^k; sticky tells whether a remainder was lost.  The exponent is
\* halved, so that the depth of the recursion is its logarithm.
RECURSIVE DivPow10(_, _, _)
DivPow10(x, k, sticky) ==
    LET half == DivPow10(x, k \div 2, sticky)
    IN  IF k = 0 THEN [q |-> x, sticky |-> sticky]
        ELSE IF k = 1 THEN WithSticky(sticky, BigDivSmall(x, 10))
        ELSE IF half.sticky THEN DivPow10(half.q, k - k \div 2, TRUE)
        ELSE DivPow10(half.q, k - k \div 2, FALSE)

\* x * 10^k
RECURSIVE MulPow10(_, _)
MulPow10(x, k) ==
    LET half == MulPow10(x, k \div 2)
    IN  IF k = 0 \/ x = <<>> THEN x
        ELSE IF k = 1 THEN BigMulSmall(x, 10)
        ELSE IF half = <<>> THEN <<>>
        ELSE MulPow10(half, k - k \div 2)

\* The float64 nearest to dv.q * 2^e, where dv.sticky tells that more was
\* lost.
RoundQuotient(neg, dv, e) == RoundNearestEven(neg, dv.q, dv.sticky, e)

\* The float64 nearest to the decimal digits * 10^-scale: what the Go compiler
\* does with a literal and strconv.ParseFloat with a decimal string.  The
\* quotient by 10^scale is taken with 4 * scale + ScaleBits more bits, and
\* 10^scale < 2^(4 * scale), so it has more than MantBits + 1 bits.
DecToFloat(neg, digits, scale) ==
    LET decLen == BigBitLen(digits) \div 3 + 1
        bits   == 4 * scale + ScaleBits
    IN  IF digits = <<>> THEN [FloatZero EXCEPT !.neg = neg]
        ELSE IF 0 - scale > MaxDecExp THEN FloatInf(neg)
        ELSE IF decLen - scale < MinDecExp THEN [FloatZero EXCEPT !.neg = neg]
        ELSE RoundQuotient(neg,
                           IF scale <= 0
                           THEN [q |-> MulPow10(digits, 0 - scale), sticky |-> FALSE]
                           ELSE DivPow10(BigShiftLeft(digits, bits), scale, FALSE),
                           IF scale <= 0 THEN 0 ELSE 0 - bits)

Lit(n, scale) == DecToFloat(FALSE, BigFromInt(n), scale)

IsZero(a) == a.k = "fin" /\ a.m = <<>>

FloatMul(a, b) ==
    IF a.k = "nan" \/ b.k = "nan" THEN FloatNaN
    ELSE IF a.k = "inf" \/ b.k = "inf"
    THEN (IF IsZero(a) \/ IsZero(b) THEN FloatNaN ELSE FloatInf(a.neg # b.neg))
    ELSE RoundNearestEven(a.neg # b.neg, BigMul(a.m, b.m), FALSE, a.e + b.e)

\* -1, 0 or 1 as |a| is below, equal to or above |b|; neither is a NaN.
FloatCmpAbs(a, b) ==
    LET ea == a.e + BigBitLen(a.m)
        eb == b.e + BigBitLen(b.m)
    IN  IF a.k = "inf" \/ b.k = "inf"
        THEN (IF a.k = b.k THEN 0 ELSE IF a.k = "inf" THEN 1 ELSE -1)
        ELSE IF a.m = <<>> /\ b.m = <<>> THEN 0
        ELSE IF a.m = <<>> THEN -1
        ELSE IF b.m = <<>> THEN 1
        ELSE IF ea < eb THEN -1
        ELSE IF ea > eb THEN 1
        ELSE BigCmp(a.m, b.m)

\* -1, 0 or 1 as a is below, equal to or above b, given the order c of |a|
\* and |b|; neither is a NaN.
Signed(a, b, c) ==
    IF IsZero(a) /\ IsZero(b) THEN 0
    ELSE IF a.neg /\ ~b.neg THEN -1
    ELSE IF ~a.neg /\ b.neg THEN 1
    ELSE IF a.neg THEN 0 - c
    ELSE c

FloatCmp(a, b) == Signed(a, b, FloatCmpAbs(a, b))

\* A comparison with a NaN is false.
FloatGeq(a, b) == a.k # "nan" /\ b.k # "nan" /\ FloatCmp(a, b) >= 0
FloatLeq(a, b) == a.k # "nan" /\ b.k # "nan" /\ FloatCmp(a, b) <= 0

\* src/main.go:78 and src/unnamed/part_000:54
isWithinThreshold(price, target) ==
    LET lowerBound == FloatMul(target, Lit(99, 2))
        upperBound == FloatMul(target, Lit(101, 2))
    IN  FloatGeq(price, lowerBound) /\ FloatLeq(price, upperBound)

\* ------------------------------------------------------------------------
\* Text.  A Go string is the sequence of its characters; a character that
\* cannot be written in a string here is named by its code point, "U+000B".
\* ------------------------------------------------------------------------
DigitVal ==
    ("0" :> 0) @@ ("1" :> 1) @@ ("2" :> 2) @@ ("3" :> 3) @@ ("4" :> 4) @@
    ("5" :> 5) @@ ("6" :> 6) @@ ("7" :> 7) @@ ("8" :> 8) @@ ("9" :> 9)

IsDigit(c) == c \in DOMAIN DigitVal

HexVal ==
    DigitVal @@ ("a" :> 10) @@ ("b" :> 11) @@ ("c" :> 12) @@ ("d" :> 13) @@
    ("e" :> 14) @@ ("f" :> 15)

\* unicode.ToLower over the letters A to Z.
LowerOf ==
    ("A" :> "a") @@ ("B" :> "b") @@ ("C" :> "c") @@ ("D" :> "d") @@ ("E" :> "e") @@ ("F" :> "f") @@
    ("G" :> "g") @@ ("H" :> "h") @@ ("I" :> "i") @@ ("J" :> "j") @@ ("K" :> "k") @@ ("L" :> "l") @@
    ("M" :> "m") @@ ("N" :> "n") @@ ("O" :> "o") @@ ("P" :> "p") @@ ("Q" :> "q") @@ ("R" :> "r") @@
    ("S" :> "s") @@ ("T" :> "t") @@ ("U" :> "u") @@ ("V" :> "v") @@ ("W" :> "w") @@ ("X" :> "x") @@
    ("Y" :> "y") @@ ("Z" :> "z")

Lower(c) == IF c \in DOMAIN LowerOf THEN LowerOf[c] ELSE c

\* strings.ToLower
ToLower(s) == [i \in DOMAIN s |-> Lower(s[i])]

\* strconv's commonPrefixLenIgnoreCase: how many characters of prefix s
\* starts with, letters of s taken in lower case.
CommonPrefixLenIgnoreCase(s, prefix) ==
    LET n   == IF Len(s) < Len(prefix) THEN Len(s) ELSE Len(prefix)
        bad == {i \in 1..n : Lower(s[i]) # prefix[i]}
    IN  IF bad = {} THEN n ELSE (CHOOSE i \in bad : \A j \in bad : i <= j) - 1

\* The result of special for a string that starts with inf characters of
\* "infinity" after its sign, or with nan characters of "nan".
SpecialOf(signed, neg, inf, nan) ==
    LET n == IF 3 < inf /\ inf < 8 THEN 3 ELSE inf
    IN  IF n = 3 \/ n = 8
        THEN [ok |-> TRUE, val |-> FloatInf(neg), n |-> n + (IF signed THEN 1 ELSE 0)]
        ELSE IF ~signed /\ nan = 3 THEN [ok |-> TRUE, val |-> FloatNaN, n |-> 3]
        ELSE [ok |-> FALSE, val |-> FloatZero, n |-> 0]

\* strconv's special: the infinities and NaN, [ok, val, n] with n the
\* characters read.  A sign goes with an infinity only.
Special(s) ==
    LET signed == s # <<>> /\ s[1] \in {"+", "-"}
    IN  SpecialOf(signed, signed /\ s[1] = "-",
                  CommonPrefixLenIgnoreCase(IF signed THEN Tail(s) ELSE s,
                                            <<"i", "n", "f", "i", "n", "i", "t", "y">>),
                  CommonPrefixLenIgnoreCase(s, <<"n", "a", "n">>))

\* The least element of a set of positions, or otherwise when it is empty.
FirstOf(set, otherwise) ==
    IF set = {} THEN otherwise ELSE CHOOSE i \in set : \A j \in set : i <= j

\* The elements of a set of positions in increasing order.
Ascending(set) ==
    [j \in 1..Cardinality(set) |->
        CHOOSE i \in set : Cardinality({p \in set : p <= i}) = j]

\* The characters of s at the positions at.
Pick(s, at) == [j \in DOMAIN at |-> s[at[j]]]

IsBaseDigit(c, base) == IsDigit(c) \/ (base = 16 /\ Lower(c) \in DOMAIN HexVal)

\* The number a sequence of digits of the base denotes (the sequence is
\* halved, so that the depth of the recursion is the logarithm of its length).
RECURSIVE DigitsValue(_, _)
DigitsValue(ds, base) ==
    LET n  == Len(ds)
        h  == n \div 2
        hi == DigitsValue(SubSeq(ds, 1, h), base)
        lo == DigitsValue(SubSeq(ds, h + 1, n), base)
    IN  IF n = 0 THEN <<>>
        ELSE IF n = 1 THEN BigFromInt(HexVal[Lower(ds[1])])
        ELSE IF hi = <<>> THEN lo
        ELSE IF base = 16 THEN BigAdd(BigShiftLeft(hi, 4 * (n - h)), lo)
        ELSE BigAdd(MulPow10(hi, n - h), lo)

\* What the mantissa loop has read when it stops at position stop, the
\* digits being at the positions at.
MantissaRead(s, i, base, stop, at) ==
    LET read == i..(stop - 1)
        dot  == FirstOf({j \in read : s[j] = "."}, stop)
    IN  [i           |-> stop,
         digits      |-> DigitsValue(Pick(s, at), base),
         nfrac       |-> Cardinality({j \in DOMAIN at : at[j] > dot}),
         sawDot      |-> dot < stop,
         sawDigits   |-> at # <<>>,
         underscores |-> \E j \in read : s[j] = "_"]

\* The digits of the base among the characters of s from i to before stop.
DigitsRead(s, i, base, stop) ==
    MantissaRead(s, i, base, stop,
                 Ascending({j \in i..(stop - 1) : IsBaseDigit(s[j], base)}))

\* The mantissa loop of strconv's readFloat from position i: it reads digits
\* of the base, underscores and one '.', and stops at i, the first character
\* that is none of these or is a second '.'.  digits is the number the digits
\* read denote and nfrac counts those after the '.'.
ScanDecimal(s, i, base) ==
    DigitsRead(s, i, base,
               FirstOf({j \in i..Len(s) :
                           \/ ~(s[j] \in {"_", "."} \/ IsBaseDigit(s[j], base))
                           \/ (s[j] = "." /\ \E l \in i..(j - 1) : s[l] = ".")},
                       Len(s) + 1))

\* The exponent readFloat goes on adding digits to while it is below ExpCap.
ExpCap == 10000

\* The exponent of the digits ds: a digit is added to e while e < ExpCap
\* (e = e * 10 + digit), so that e is the number the first five digits after
\* the leading zeros denote.
ExponentValue(ds) ==
    LET lead == FirstOf({j \in DOMAIN ds : ds[j] # "0"}, Len(ds) + 1)
        last == IF lead + 4 < Len(ds) THEN lead + 4 ELSE Len(ds)
        e[j \in (lead - 1)..last] ==
            IF j < lead THEN 0
            ELSE IF e[j - 1] < ExpCap THEN e[j - 1] * 10 + DigitVal[ds[j]]
            ELSE e[j - 1]
    IN  e[last]

\* What the exponent loop has read when it stops at position stop.
ExponentRead(s, i, stop) ==
    [i           |-> stop,
     e           |-> ExponentValue(Pick(s, Ascending({j \in i..(stop - 1) : IsDigit(s[j])}))),
     underscores |-> \E j \in i..(stop - 1) : s[j] = "_"]

\* The exponent loop of readFloat from position i: it reads digits and
\* underscores and stops at the first character that is neither.
ScanExponent(s, i) ==
    ExponentRead(s, i,
                 FirstOf({j \in i..Len(s) : ~(s[j] = "_" \/ IsDigit(s[j]))}, Len(s) + 1))

\* strconv's underscoreOK: after the sign and a base prefix, an underscore
\* follows a digit or the base prefix and is followed by a digit.
underscoreOK(s) ==
    LET t      == IF s # <<>> /\ s[1] \in {"+", "-"} THEN Tail(s) ELSE s
        prefix == Len(t) >= 2 /\ t[1] = "0" /\ Lower(t[2]) \in {"b", "o", "x"}
        base   == IF prefix /\ Lower(t[2]) = "x" THEN 16 ELSE 10
        first  == IF prefix THEN 3 ELSE 1
    IN  \A i \in first..Len(t) :
            t[i] = "_" =>
                /\ (i = first /\ prefix) \/ (i > first /\ IsBaseDigit(t[i - 1], base))
                /\ i < Len(t) /\ IsBaseDigit(t[i + 1], base)

\* What readFloat returns when the string holds no number.
NoNumber(neg, hex) ==
    [ok |-> FALSE, neg |-> neg, hex |-> hex, digits |-> <<>>, scale |-> 0, n |-> 0]

\* readFloat after the mantissa mt and the exponent ex that starts at i1 (an
\* exponent there is when the character after the mantissa says so).
ReadNumber(s, neg, hex, mt, isExp, eneg, i1, ex) ==
    LET e    == IF eneg THEN 0 - ex.e ELSE ex.e
        frac == IF hex THEN 4 * mt.nfrac ELSE mt.nfrac
        n    == IF isExp THEN ex.i - 1 ELSE mt.i - 1
        us   == mt.underscores \/ (isExp /\ ex.underscores)
    IN  IF ~mt.sawDigits THEN NoNumber(neg, hex)
        ELSE IF isExp /\ (i1 > Len(s) \/ ~IsDigit(s[i1])) THEN NoNumber(neg, hex)
        ELSE IF hex /\ ~isExp THEN NoNumber(neg, hex)
        ELSE IF us /\ ~underscoreOK(SubSeq(s, 1, n)) THEN NoNumber(neg, hex)
        ELSE [ok |-> TRUE, neg |-> neg, hex |-> hex, digits |-> mt.digits,
              scale |-> IF mt.digits = <<>> THEN 0
                        ELSE IF isExp THEN frac - e ELSE frac,
              n |-> n]

\* readFloat after the mantissa mt: the exponent character, its sign and
\* its digits.
ReadExponent(s, neg, hex, mt) ==
    LET isExp == mt.i <= Len(s) /\ Lower(s[mt.i]) = (IF hex THEN "p" ELSE "e")
        esign == mt.i + 1 <= Len(s) /\ s[mt.i + 1] \in {"+", "-"}
        i1    == IF esign THEN mt.i + 2 ELSE mt.i + 1
    IN  ReadNumber(s, neg, hex, mt, isExp, esign /\ s[mt.i + 1] = "-", i1,
                   ScanExponent(s, i1))

\* strconv's readFloat: the number at the start of s, [ok, neg, hex, digits,
\* scale, n].  It stands for digits * 10^-scale, or digits * 2^-scale when
\* hex, and n characters were read.
ReadDecimal(s) ==
    LET signed == s # <<>> /\ s[1] \in {"+", "-"}
        i0     == IF signed THEN 2 ELSE 1
        hex    == i0 + 2 <= Len(s) /\ s[i0] = "0" /\ Lower(s[i0 + 1]) = "x"
    IN  IF i0 > Len(s) THEN NoNumber(signed /\ s[1] = "-", hex)
        ELSE ReadExponent(s, signed /\ s[1] = "-", hex,
                          ScanDecimal(s, IF hex THEN i0 + 2 ELSE i0,
                                      IF hex THEN 16 ELSE 10))

\* The conversion of strconv's atof64 reports a value out of the range of
\* float64 as an infinity and an error (ErrRange).
RangeChecked(val, n) == [val |-> val, n |-> n, err |-> val.k = "inf"]

\* The float64 nearest to the number d that readFloat has read.
Convert(d) ==
    IF ~d.ok THEN [val |-> FloatZero, n |-> 0, err |-> TRUE]
    ELSE IF d.hex
    THEN RangeChecked(RoundNearestEven(d.neg, d.digits, FALSE, 0 - d.scale), d.n)
    ELSE RangeChecked(DecToFloat(d.neg, d.digits, d.scale), d.n)

\* The number or the special value at the start of s.
NumberOrSpecial(s, sp) ==
    IF sp.ok THEN [val |-> sp.val, n |-> sp.n, err |-> FALSE]
    ELSE Convert(ReadDecimal(s))

\* strconv's atof64: [val, n, err] for the float64 at the start of s and the
\* number of characters read.
atof64(s) == NumberOrSpecial(s, Special(s))

\* The whole of the string must have been read.
WholeString(r, len) ==
    IF r.n # len THEN [err |-> TRUE, val |-> FloatZero]
    ELSE [err |-> r.err, val |-> r.val]

\* strconv.ParseFloat(s, 64): [err, val].  The whole of s must be read; a
\* value out of the range of float64 is an infinity and an error (ErrRange).
ParseFloat(s) == WholeString(atof64(s), Len(s))

\* unicode.IsSpace
IsSpace(c) ==
    c \in { " ", "\t", "\n", "\r", "\f", "U+000B", "U+0085", "U+00A0", "U+1680",
            "U+2000", "U+2001", "U+2002", "U+2003", "U+2004", "U+2005", "U+2006",
            "U+2007", "U+2008", "U+2009", "U+200A", "U+2028", "U+2029", "U+202F",
            "U+205F", "U+3000" }

\* s without the white space it starts with.
TrimLeft(s) ==
    SubSeq(s, FirstOf({i \in DOMAIN s : ~IsSpace(s[i])}, Len(s) + 1), Len(s))

\* s without the white space it ends with.
TrimRight(s) ==
    LET set == {i \in DOMAIN s : ~IsSpace(s[i])}
    IN  IF set = {} THEN <<>>
        ELSE SubSeq(s, 1, CHOOSE i \in set : \A j \in set : j <= i)

\* strings.TrimSpace
TrimSpace(s) == TrimRight(TrimLeft(s))

TradeEvent == <<"t", "r", "a", "d", "e">>

\* ------------------------------------------------------------------------
\* Configuration.  A target is the decimal literal of the source, <<n, k>>
\* for n * 10^-k; the program holds the float64 nearest to it.
\* ------------------------------------------------------------------------
\* src/main.go:53
priceTargetsA ==
    "LINKUSDT" :> << <<217, 1>>, <<208, 1>>, <<1844, 2>>, <<2500, 2>> >> @@
    "KSMUSDT" :> << <<40, 0>>, <<37, 0>> >> @@
    "COTIUSDT" :> << <<154, 1>>, <<144, 1>>, <<127, 1>> >> @@
    "SOLUSDT" :> << <<210, 0>>, <<200, 0>>, <<190, 0>> >> @@
    "XLMUSDT" :> << <<42, 2>>, <<36, 2>>, <<30, 2>> >> @@
    "ALGOUSDT" :> << <<42, 2>>, <<36, 2>>, <<30, 2>> >> @@
    "PENDLEUSDT" :> << <<59, 1>>, <<56, 1>>, <<54, 1>> >> @@
    "RNDRUSDT" :> << <<9, 0>>, <<8, 0>>, <<72, 1>> >> @@
    "RAYUSDT" :> << <<45, 1>>, <<4, 0>>, <<34, 1>> >> @@
    "JASMYUSDT" :> << <<45, 3>> >> @@
    "GALAUSDT" :> << <<50, 2>>, <<46, 2>>, <<40, 2>> >> @@
    "AVAXUSDT" :> << <<47, 0>>, <<43, 0>> >> @@
    "KDAUSDT" :> << <<131, 2>>, <<115, 2>>, <<1, 0>> >> @@
    "ICPUSDT" :> << <<135, 1>>, <<13, 0>>, <<123, 1>> >> @@
    "DIAUSDT" :> << <<88, 2>>, <<84, 2>>, <<80, 2>> >> @@
    "SUPERUSDT" :> << <<16, 1>>, <<15, 1>> >> @@
    "RSRUSDT" :> << <<1800, 5>>, <<1500, 5>>, <<12, 3>> >> @@
    "TAOUSDT" :> << <<680, 0>>, <<655, 0>>, <<635, 0>> >> @@
    "ONDOUSDT" :> << <<145, 2>>, <<128, 2>>, <<111, 2>> >> @@
    "ZILUSDT" :> << <<285, 3>>, <<253, 3>>, <<2218, 4>> >> @@
    "LITUSDT" :> << <<11, 1>>, <<10, 1>>, <<8, 1>> >> @@
    "TIAUSDT" :> << <<765, 2>>, <<68, 1>> >>

\* src/unnamed/part_000:33
priceTargetsB ==
    "ICPUSDT" :> << <<136, 1>>, <<13, 0>>, <<125, 1>> >> @@
    "LINKUSDT" :> << <<217, 1>>, <<208, 1>>, <<1844, 2>> >> @@
    "KSMUSDT" :> << <<40, 0>>, <<37, 0>> >> @@
    "DIAUSDT" :> << <<83, 2>>, <<73, 2>> >> @@
    "COTIUSDT" :> << <<15, 0>>, <<144, 1>>, <<135, 1>> >> @@
    "SOLUSDT" :> << <<210, 0>>, <<200, 0>>, <<190, 0>> >> @@
    "XLMUSDT" :> << <<42, 2>>, <<36, 2>>, <<30, 2>> >> @@
    "KDAUSDT" :> << <<1377, 3>>, <<1275, 3>>, <<115, 2>> >> @@
    "ALGOUSDT" :> << <<42, 2>>, <<36, 2>>, <<30, 2>> >> @@
    "PENDLEUSDT" :> << <<61, 1>>, <<59, 1>>, <<56, 1>> >> @@
    "RNDRUSDT" :> << <<9, 0>>, <<8, 0>>, <<72, 1>> >> @@
    "AAVEUSDT" :> << <<220, 0>>, <<200, 0>>, <<183, 0>> >> @@
    "RAYUSDT" :> << <<45, 1>>, <<4, 0>>, <<34, 1>> >> @@
    "JASMYUSDT" :> << <<45, 2>> >> @@
    "GALAUSDT" :> << <<50, 2>>, <<46, 2>>, <<40, 2>> >> @@
    "AVAXUSDT" :> << <<47, 0>>, <<43, 0>> >> @@
    "SUPERUSDT" :> << <<16, 1>>, <<15, 1>> >> @@
    "RSRUSDT" :> << <<1800, 5>>, <<1500, 5>>, <<12, 3>> >>

\* src/main.go:46
chatIds == << "-1002314879454", "6753790669", "6717764833" >>

TargetFloat(t) == Lit(t[1], t[2])

\* The characters of the symbols of the tables and of the feed.
Spelling ==
    "AAVEUSDT" :> << "A", "A", "V", "E", "U", "S", "D", "T" >> @@
    "ALGOUSDT" :> << "A", "L", "G", "O", "U", "S", "D", "T" >> @@
    "AVAXUSDT" :> << "A", "V", "A", "X", "U", "S", "D", "T" >> @@
    "BTCUSDT" :> << "B", "T", "C", "U", "S", "D", "T" >> @@
    "COTIUSDT" :> << "C", "O", "T", "I", "U", "S", "D", "T" >> @@
    "DIAUSDT" :> << "D", "I", "A", "U", "S", "D", "T" >> @@
    "GALAUSDT" :> << "G", "A", "L", "A", "U", "S", "D", "T" >> @@
    "ICPUSDT" :> << "I", "C", "P", "U", "S", "D", "T" >> @@
    "JASMYUSDT" :> << "J", "A", "S", "M", "Y", "U", "S", "D", "T" >> @@
    "KDAUSDT" :> << "K", "D", "A", "U", "S", "D", "T" >> @@
    "KSMUSDT" :> << "K", "S", "M", "U", "S", "D", "T" >> @@
    "LINKUSDT" :> << "L", "I", "N", "K", "U", "S", "D", "T" >> @@
    "LITUSDT" :> << "L", "I", "T", "U", "S", "D", "T" >> @@
    "ONDOUSDT" :> << "O", "N", "D", "O", "U", "S", "D", "T" >> @@
    "PENDLEUSDT" :> << "P", "E", "N", "D", "L", "E", "U", "S", "D", "T" >> @@
    "RAYUSDT" :> << "R", "A", "Y", "U", "S", "D", "T" >> @@
    "RNDRUSDT" :> << "R", "N", "D", "R", "U", "S", "D", "T" >> @@
    "RSRUSDT" :> << "R", "S", "R", "U", "S", "D", "T" >> @@
    "SOLUSDT" :> << "S", "O", "L", "U", "S", "D", "T" >> @@
    "SUPERUSDT" :> << "S", "U", "P", "E", "R", "U", "S", "D", "T" >> @@
    "TAOUSDT" :> << "T", "A", "O", "U", "S", "D", "T" >> @@
    "TIAUSDT" :> << "T", "I", "A", "U", "S", "D", "T" >> @@
    "XLMUSDT" :> << "X", "L", "M", "U", "S", "D", "T" >> @@
    "ZILUSDT" :> << "Z", "I", "L", "U", "S", "D", "T" >>

\* src/main.go:123, src/unnamed/part_000:68: strings.ToLower(asset)+"@trade"
StreamName(asset) == ToLower(Spelling[asset]) \o <<"@", "t", "r", "a", "d", "e">>

\* src/main.go:121-124, src/unnamed/part_000:66-69: the stream names appended
\* while ranging over the keys of the table.  The order of a range over a map
\* is not specified: the list is held as the bag of its elements.
RECURSIVE Assets(_)
Assets(keys) ==
    IF keys = {} THEN EmptyBag
    ELSE LET asset == CHOOSE k \in keys : TRUE
         IN  Assets(keys \ {asset}) (+) SetToBag({StreamName(asset)})

\* ------------------------------------------------------------------------
\* Bounds of the model.
\* ------------------------------------------------------------------------
MaxFrames == 3
TicksPerMinute == 2

\* src/main.go:193  (1*time.Minute, in clock ticks)
Cooldown == 1 * TicksPerMinute

\* ------------------------------------------------------------------------
\* The feed: what conn.ReadMessage can return.
\* ------------------------------------------------------------------------
P20500 == <<"2", "0", "5", ".", "0", "0">>
P2089  == <<"2", "0", "8", ".", "9">>
P208   == <<"2", "0", ".", "8">>
PComma == <<"2", "0", "8", ",", "9">>
PExp   == <<"2", ".", "0", "8", "9", "e", "2">>
PHex   == <<"0", "x", "1", ".", "a", "2", "p", "+", "7">>
PTiny  == <<"1", "e", "-", "2", "2">>
PInf   == <<"+", "I", "n", "f">>
PNaN   == <<"N", "a", "N">>
PHuge  == <<"1", "e", "3", "0", "9">>

NoFrame == [kind |-> "none", Event |-> <<>>, Symbol |-> "", Price |-> <<>>]

Trade(event, symbol, price) ==
    [kind |-> "json", Event |-> event, Symbol |-> symbol, Price |-> price]

\* The frames the feed delivers in the model: a trade inside the band of the
\* first target of its symbol, a trade inside the band of the second target
\* of its symbol, a trade of a symbol without targets (its event type padded
\* with white space, its price written with an exponent), a trade whose
\* price does not parse, and the acknowledgement of the subscription (no
\* event type).
Frames ==
    { Trade(TradeEvent, "SOLUSDT", P2089),
      Trade(TradeEvent, "LINKUSDT", P208),
      Trade(<<" ", "U+00A0">> \o TradeEvent \o <<"\f", "\n">>, "BTCUSDT", PExp),
      Trade(TradeEvent, "SOLUSDT", PComma),
      Trade(<<>>, "", <<>>) }

\* strconv.FormatInt, one digit at a time.
RECURSIVE FormatDigits(_, _)
FormatDigits(n, width) ==
    IF n = 0 /\ width <= 0 THEN <<>>
    ELSE FormatDigits(n \div 10, width - 1)
         \o <<CHOOSE c \in DOMAIN DigitVal : DigitVal[c] = n % 10>>

\* The decimal text of n * 10^-scale.
FormatDecimal(n, scale) ==
    LET ds == FormatDigits(n, scale + 1)
    IN  IF scale = 0 THEN ds
        ELSE SubSeq(ds, 1, Len(ds) - scale) \o <<".">>
             \o SubSeq(ds, Len(ds) - scale + 1, Len(ds))

\* For a target, the prices at the two ends of its band and one unit of the
\* last decimal place outside and inside each end.
BandPrices(t) ==
    { FormatDecimal(99 * t[1] + d, t[2] + 2) : d \in {-1, 0, 1} } \cup
    { FormatDecimal(101 * t[1] + d, t[2] + 2) : d \in {-1, 0, 1} }

RECURSIVE SeqRange(_)
SeqRange(q) == IF q = <<>> THEN {} ELSE {q[1]} \cup SeqRange(Tail(q))

\* The tables of the two variants.
Tables == {priceTargetsA, priceTargetsB}

\* Every symbol a trade of the model can carry.
FeedSymbols == {f.Symbol : f \in Frames} \cup UNION {DOMAIN tb : tb \in Tables}

\* The prices at and next to the ends of the bands of a list of targets.
ListBandPrices(list) == UNION {BandPrices(t) : t \in SeqRange(list)}

\* Prices met by the targets of every symbol besides the ends of its bands:
\* inside and outside the bands of SOLUSDT, written with an exponent and in
\* hexadecimal, next to zero, and the values that are no finite number.
TestPrices == {P2089, P20500, PExp, PHex, PTiny, PInf, PNaN, PHuge}

FeedPrices ==
    {f.Price : f \in Frames} \cup TestPrices
        \cup UNION {UNION {ListBandPrices(tb[s]) : s \in DOMAIN tb} : tb \in Tables}

\* The conversions and comparisons are functions of their arguments alone:
\* they are evaluated once, over the prices of the model and the targets
\* each price can meet, and looked up afterwards (f @@ <<>> is f, tabulated).
ParsedPrice == [p \in FeedPrices |-> ParseFloat(p)] @@ <<>>

ValidPrices == {p : p \in {q \in FeedPrices : ~ParsedPrice[q].err}}

Comparisons ==
    UNION { UNION { ({f.Price : f \in Frames} \cup TestPrices \cup ListBandPrices(tb[s]))
                       \X SeqRange(tb[s]) : s \in DOMAIN tb } : tb \in Tables }

WithinBand ==
    [c \in {d \in Comparisons : d[1] \in ValidPrices} |->
        isWithinThreshold(ParsedPrice[c[1]].val, TargetFloat(c[2]))] @@ <<>>

\* ------------------------------------------------------------------------
\* State.
\* ------------------------------------------------------------------------
VARIABLES
    variant,       \* "A" (src/main.go) or "B" (src/unnamed/part_000)
    priceTargets,  \* the target table
    proc,          \* "running", "exited", "fatal" or the panic that ended it
    mainPc,        \* position of main
    bot,           \* the Telegram client handle: "unset", "nil" or "client"
    dials,         \* calls of Dial
    conn,          \* the connection: "none", "open", "failed" or "closed"
    subscribes,    \* SUBSCRIBE messages written
    subscribed,    \* the write of the SUBSCRIBE message: "no", "yes" or "failed"
    wire,          \* [path, out]: the streams of the dialled URL, the frames written
    done,          \* the done channel: [buf, closed]
    readerPc,      \* position of the reader goroutine
    framesRead,    \* frames returned by ReadMessage
    frame,         \* the frame being processed (trade)
    ti,            \* index of the target under test, 0 outside the loop
    alertEmitted,  \* suppression flag
    lastSymbol,    \* symbol of the last emitted alert
    alertTimer,    \* [kind, armed, remaining, chan]
    callbacks,     \* AfterFunc callbacks started and not yet run
    armedTimers,   \* timers of the runtime that are armed
    sinceAlert,    \* per symbol, ticks since its last emitted alert (capped)
    alerts,        \* the alerts raised by the frame being processed, in order
    logged         \* the log lines, other than alerts, written for that frame

vars ==
    << variant, priceTargets, proc, mainPc, bot, dials, conn, subscribes,
       subscribed, wire, done,
       readerPc, framesRead, frame, ti, alertEmitted, lastSymbol,
       alertTimer, callbacks, armedTimers, sinceAlert, alerts, logged >>

mainVars == << mainPc, bot, dials, conn, subscribes, subscribed, wire >>
readerVars == << readerPc, framesRead, frame, ti >>
dedupVars == << alertEmitted, lastSymbol, alertTimer, callbacks, armedTimers >>
configVars == << variant, priceTargets >>

Symbols == DOMAIN priceTargets

\* time.NewTimer(0) after its channel was received from (src/main.go:108-109)
DrainedTimer == [kind |-> "timer", armed |-> FALSE, remaining |-> 0, chan |-> "empty"]

\* time.AfterFunc(1*time.Minute, ...): it has no channel (src/main.go:193)
AfterFunc(d) == [kind |-> "afterfunc", armed |-> TRUE, remaining |-> d, chan |-> "nil"]

\* No log line written.
NoLines == [info |-> 0, priceErr |-> 0, decodeErr |-> 0, readErr |-> 0]

Init ==
    /\ variant \in {"A", "B"}
    /\ priceTargets = IF variant = "A" THEN priceTargetsA ELSE priceTargetsB
    /\ proc = "running"
    /\ mainPc = "start"
    /\ bot = "unset"
    /\ dials = 0
    /\ conn = "none"
    /\ subscribes = 0
    /\ subscribed = "no"
    /\ wire = [path |-> EmptyBag, out |-> <<>>]
    /\ done = [buf |-> 0, closed |-> FALSE]
    /\ readerPc = "idle"
    /\ framesRead = 0
    /\ frame = NoFrame
    /\ ti = 0
    /\ alertEmitted = FALSE
    /\ lastSymbol = ""
    /\ alertTimer = DrainedTimer
    /\ callbacks = 0
    /\ armedTimers = 0
    /\ sinceAlert = [s \in FeedSymbols |-> Cooldown]
    /\ alerts = <<>>
    /\ logged = NoLines

\* ------------------------------------------------------------------------
\* main
\* ------------------------------------------------------------------------
\* src/main.go:84
botTelegram(ok) == bot' = IF ok THEN "client" ELSE "nil"

\* src/main.go:101-118, src/unnamed/part_000:60-63
Startup ==
    /\ proc = "running" /\ mainPc = "start"
    /\ IF variant = "A" THEN \E ok \in BOOLEAN : botTelegram(ok) ELSE UNCHANGED bot
    /\ mainPc' = "dial"
    /\ UNCHANGED << configVars, proc, dials, conn, subscribes, subscribed, wire,
                    done, readerVars, dedupVars, sinceAlert, alerts, logged >>

\* A dial that logs the failure and tries again.
DialRetries ==
    /\ proc = "running" /\ mainPc = "dial"
    /\ dials' = dials + 1
    /\ wire' = [wire EXCEPT !.path = Assets(Symbols)]
    /\ \E ok \in BOOLEAN :
         IF ok THEN conn' = "open" /\ mainPc' = "subscribe"
         ELSE conn' = "failed" /\ UNCHANGED mainPc
    /\ UNCHANGED << configVars, proc, bot, subscribes, subscribed, done, readerVars, dedupVars, sinceAlert, alerts, logged >>

\* src/main.go:130-134, src/unnamed/part_000:75-79
Dial ==
    /\ proc = "running" /\ mainPc = "dial"
    /\ dials' = dials + 1
    /\ wire' = [wire EXCEPT !.path = Assets(Symbols)]
    /\ \E ok \in BOOLEAN :
         IF ok THEN conn' = "open" /\ mainPc' = "subscribe" /\ UNCHANGED proc
         ELSE conn' = "failed" /\ proc' = "fatal" /\ UNCHANGED mainPc
    /\ UNCHANGED << configVars, bot, subscribes, subscribed, done, readerVars, dedupVars, sinceAlert, alerts, logged >>

\* src/main.go:142-146, src/unnamed/part_000:87-91 (the id is a fresh UUID)
SubscribeMessage(assets) == [method |-> "SUBSCRIBE", params |-> assets]

\* A subscription that is written twice.
SubscribeTwice ==
    /\ proc = "running" /\ mainPc = "subscribe"
    /\ subscribed' = "yes" /\ subscribes' = subscribes + 2
    /\ wire' = [wire EXCEPT !.out = @ \o << SubscribeMessage(Assets(Symbols)),
                                             SubscribeMessage(Assets(Symbols)) >>]
    /\ mainPc' = "spawn"
    /\ UNCHANGED << configVars, proc, bot, dials, conn, done, readerVars,
                    dedupVars, sinceAlert, alerts, logged >>

\* src/main.go:148-151, src/unnamed/part_000:92-95
Subscribe ==
    /\ proc = "running" /\ mainPc = "subscribe"
    /\ \E ok \in BOOLEAN :
         IF ok
         THEN /\ subscribed' = "yes" /\ subscribes' = subscribes + 1
              /\ wire' = [wire EXCEPT !.out = Append(@, SubscribeMessage(Assets(Symbols)))]
              /\ mainPc' = "spawn" /\ UNCHANGED proc
         ELSE /\ subscribed' = "failed" /\ proc' = "fatal"
              /\ UNCHANGED << mainPc, subscribes, wire >>
    /\ UNCHANGED << configVars, bot, dials, conn, done, readerVars,
                    dedupVars, sinceAlert, alerts, logged >>

\* src/main.go:154, src/unnamed/part_000:98
StartReader ==
    /\ proc = "running" /\ mainPc = "spawn"
    /\ mainPc' = "wait"
    /\ readerPc' = "read"
    /\ UNCHANGED << configVars, proc, bot, dials, conn, subscribes, subscribed,
                    wire, done, framesRead, frame, ti, dedupVars, sinceAlert,
                    alerts, logged >>

\* The reader goroutine has panicked: its deferred close(done) has run and
\* the runtime is about to end the process.
Panicking == readerPc \in {"panicDecode", "panicSend"}

\* src/main.go:218-220 and 134, src/unnamed/part_000:141-143 and 80: the
\* receive from done returns, main logs and returns, and its deferred
\* conn.Close() runs.
MainShutdown ==
    /\ proc = "running" /\ mainPc = "wait"
    /\ done.buf > 0 \/ done.closed
    /\ mainPc' = "end"
    /\ conn' = "closed"
    /\ done' = [done EXCEPT !.buf = IF done.buf > 0 THEN done.buf - 1 ELSE 0]
    /\ UNCHANGED << configVars, proc, bot, dials, subscribes, subscribed, wire,
                    readerVars, dedupVars, sinceAlert, alerts, logged >>

\* main has returned and the process exits; when a goroutine is panicking
\* the runtime holds main back and the panic ends the process.
MainExit ==
    /\ proc = "running" /\ mainPc = "end"
    /\ ~Panicking
    /\ proc' = "exited"
    /\ UNCHANGED << configVars, mainVars, done, readerVars, dedupVars,
                    sinceAlert, alerts, logged >>

\* The panic of the reader goroutine ends the process.
Crash ==
    /\ proc = "running"
    /\ Panicking
    /\ proc' = readerPc
    /\ UNCHANGED << configVars, mainVars, done, readerVars, dedupVars,
                    sinceAlert, alerts, logged >>

\* An interrupt or terminate signal, relayed to done by signal.Notify
\* (src/main.go:118, src/unnamed/part_000:63): a non-blocking send.
Signal ==
    /\ proc = "running" /\ mainPc # "start"
    /\ IF done.closed THEN proc' = "panicSignal" /\ UNCHANGED done
       ELSE /\ done' = [done EXCEPT !.buf = 1]
            /\ UNCHANGED proc
    /\ UNCHANGED << configVars, mainVars, readerVars, dedupVars, sinceAlert,
                    alerts, logged >>

\* ------------------------------------------------------------------------
\* The notifier (variant A)
\* ------------------------------------------------------------------------
\* src/main.go:93-99: one bot.Send for the alert a; a failure is logged and
\* the call returns.
sendMessage(a, chatID, ok) ==
    [a EXCEPT !.sent = Append(@, chatID), !.failed = IF ok THEN @ ELSE @ + 1]

\* ------------------------------------------------------------------------
\* The reader goroutine
\* ------------------------------------------------------------------------
Reading == proc = "running" /\ readerPc = "read"

MoreFrames == framesRead < MaxFrames

\* src/main.go:157-165, src/unnamed/part_000:101-109: the read fails, the
\* goroutine returns and its deferred close(done) runs.
ReadError ==
    /\ Reading
    /\ alerts' = <<>>
    /\ frame' = [NoFrame EXCEPT !.kind = "error"]
    /\ logged' = [NoLines EXCEPT !.readErr = 1]
    /\ readerPc' = "returned"
    /\ done' = [done EXCEPT !.closed = TRUE]
    /\ UNCHANGED << configVars, proc, mainVars, framesRead, ti, dedupVars,
                    sinceAlert >>

\* src/main.go:167-171, src/unnamed/part_000:111-115: json.Unmarshal fails;
\* the goroutine panics and its deferred close(done) runs.
ReadUndecodable ==
    /\ Reading /\ MoreFrames
    /\ alerts' = <<>>
    /\ frame' = [NoFrame EXCEPT !.kind = "undecodable"]
    /\ framesRead' = framesRead + 1
    /\ logged' = [NoLines EXCEPT !.decodeErr = 1]
    /\ readerPc' = "panicDecode"
    /\ done' = [done EXCEPT !.closed = TRUE]
    /\ UNCHANGED << configVars, proc, mainVars, ti, dedupVars, sinceAlert >>

\* A test that takes every decoded message for a trade.
IsTradeAnyEvent(f) == f.kind = "json"

\* src/main.go:173, src/unnamed/part_000:117
IsTrade(f) == TrimSpace(f.Event) = TradeEvent

\* src/main.go:173, src/unnamed/part_000:117: not a trade event.
ReadIgnored(f) ==
    /\ Reading /\ MoreFrames
    /\ ~IsTrade(f)
    /\ alerts' = <<>>
    /\ frame' = f
    /\ framesRead' = framesRead + 1
    /\ logged' = NoLines
    /\ UNCHANGED << configVars, proc, mainVars, done, readerPc, ti,
                    dedupVars, sinceAlert >>

\* A reader that gives up on a price that does not parse.
ReadBadPriceReturns(f) ==
    /\ Reading /\ MoreFrames
    /\ IsTrade(f)
    /\ ParsedPrice[f.Price].err
    /\ alerts' = <<>>
    /\ frame' = f
    /\ framesRead' = framesRead + 1
    /\ logged' = [NoLines EXCEPT !.priceErr = 1]
    /\ readerPc' = "returned"
    /\ done' = [done EXCEPT !.closed = TRUE]
    /\ UNCHANGED << configVars, proc, mainVars, ti, dedupVars, sinceAlert >>

\* src/main.go:174-178, src/unnamed/part_000:118-122: the price does not parse.
ReadBadPrice(f) ==
    /\ Reading /\ MoreFrames
    /\ IsTrade(f)
    /\ ParsedPrice[f.Price].err
    /\ alerts' = <<>>
    /\ frame' = f
    /\ framesRead' = framesRead + 1
    /\ logged' = [NoLines EXCEPT !.priceErr = 1]
    /\ UNCHANGED << configVars, proc, mainVars, done, readerPc, ti,
                    dedupVars, sinceAlert >>

\* Where the reader goes when the evaluation of a trade is over: variant A
\* polls the timer (src/main.go:208), variant B reads the next frame.
AfterEvaluation == IF variant = "A" THEN "poll" ELSE "read"

\* src/main.go:205-207, src/unnamed/part_000:134-136: no targets for the symbol.
ReadUnconfigured(f) ==
    /\ Reading /\ MoreFrames
    /\ IsTrade(f)
    /\ ~ParsedPrice[f.Price].err
    /\ f.Symbol \notin Symbols
    /\ alerts' = <<>>
    /\ frame' = f
    /\ framesRead' = framesRead + 1
    /\ logged' = [NoLines EXCEPT !.info = 1]
    /\ readerPc' = AfterEvaluation
    /\ UNCHANGED << configVars, proc, mainVars, done, ti, dedupVars,
                    sinceAlert >>

\* src/main.go:181, src/unnamed/part_000:124: the symbol has targets.
ReadTrade(f) ==
    /\ Reading /\ MoreFrames
    /\ IsTrade(f)
    /\ ~ParsedPrice[f.Price].err
    /\ f.Symbol \in Symbols
    /\ alerts' = <<>>
    /\ frame' = f
    /\ framesRead' = framesRead + 1
    /\ ti' = 1
    /\ readerPc' = "targets"
    /\ logged' = NoLines
    /\ UNCHANGED << configVars, proc, mainVars, done, dedupVars, sinceAlert >>

targets == priceTargets[frame.Symbol]

\* isWithinThreshold(currentPrice, target) for the target under test.
Within == WithinBand[<<frame.Price, targets[ti]>>]

InLoop == proc = "running" /\ readerPc = "targets"

\* A loop that ends with the first target.
NextTargetStop ==
    ti' = 0 /\ readerPc' = AfterEvaluation

\* The loop moves to the next target, or ends.
NextTarget ==
    IF ti < Len(targets) THEN ti' = ti + 1 /\ readerPc' = "targets"
    ELSE ti' = 0 /\ readerPc' = AfterEvaluation

\* A de-duplicator that suppresses on the flag alone, whatever the symbol.
ShouldEmitFlagOnly(within, emitted, last, symbol) ==
    within /\ ~emitted

\* src/main.go:183: the condition under which variant A emits the alert.
ShouldEmit(within, emitted, last, symbol) ==
    within /\ (~emitted \/ last # symbol)

\* One alert raised: the target matched, what the de-duplicator knew (flag,
\* last symbol, ticks since the symbol's last alert), its decision, the
\* destinations the notifier has called bot.Send for and how many of these
\* calls failed.
Alert(emitted) ==
    [Symbol |-> frame.Symbol, target |-> ti, flag |-> alertEmitted,
     last |-> lastSymbol, since |-> sinceAlert[frame.Symbol],
     emitted |-> emitted, sent |-> <<>>, failed |-> 0]

\* A replacement of the timer that leaves the old timer running.
StopTimerSkipped(armed) == armed

\* src/main.go:190-192: alertTimer.Stop() takes the timer out of the runtime
\* if it has not fired; the number of armed timers it leaves.
StopTimer(armed) == IF alertTimer.armed THEN armed - 1 ELSE armed

\* An alert that leaves the last alerted symbol as it was.
RecordSymbolKeeps(last, symbol) == last

\* src/main.go:187: the symbol recorded by an alert as the last alerted one.
RecordSymbol(last, symbol) == symbol

\* src/main.go:183-195: the alert is emitted: the flag and the symbol are
\* written and the timer is replaced; the notifier is called next.
EmitAlert ==
    /\ InLoop /\ variant = "A"
    /\ ShouldEmit(Within, alertEmitted, lastSymbol, frame.Symbol)
    /\ alertEmitted' = TRUE
    /\ lastSymbol' = RecordSymbol(lastSymbol, frame.Symbol)
    /\ armedTimers' = StopTimer(armedTimers) + 1
    /\ alertTimer' = AfterFunc(Cooldown)
    /\ sinceAlert' = [sinceAlert EXCEPT ![frame.Symbol] = 0]
    /\ alerts' = Append(alerts, Alert(TRUE))
    /\ readerPc' = "send"
    /\ UNCHANGED << configVars, proc, mainVars, done, framesRead, frame, ti,
                    callbacks, logged >>

\* src/main.go:222-232 and 93-99: one round of the loop of sendTelegramChats,
\* a blocking bot.Send to the next destination.  With a nil handle the call
\* panics and the deferred close(done) of the reader runs.  After the last
\* destination the alert is logged (src/main.go:200) and the loop over the
\* targets goes on.
sendTelegramChats ==
    /\ proc = "running" /\ readerPc = "send"
    /\ LET n == Len(alerts)
           i == Len(alerts[n].sent) + 1
       IN  IF bot = "client"
           THEN /\ \E ok \in BOOLEAN :
                     alerts' = [alerts EXCEPT ![n] = sendMessage(@, chatIds[i], ok)]
                /\ IF i < Len(chatIds) THEN UNCHANGED << readerPc, ti >>
                   ELSE NextTarget
                /\ UNCHANGED done
           ELSE /\ readerPc' = "panicSend"
                /\ done' = [done EXCEPT !.closed = TRUE]
                /\ UNCHANGED << alerts, ti >>
    /\ UNCHANGED << configVars, proc, mainVars, framesRead, frame, dedupVars,
                    sinceAlert, logged >>

\* src/main.go:183: within the band, but suppressed.
SuppressAlert ==
    /\ InLoop /\ variant = "A"
    /\ Within
    /\ ~ShouldEmit(TRUE, alertEmitted, lastSymbol, frame.Symbol)
    /\ alerts' = Append(alerts, Alert(FALSE))
    /\ NextTarget
    /\ UNCHANGED << configVars, proc, mainVars, done, framesRead, frame,
                    dedupVars, sinceAlert, logged >>

\* src/unnamed/part_000:126-130: variant B logs the alert.
LogAlert ==
    /\ InLoop /\ variant = "B"
    /\ Within
    /\ alerts' = Append(alerts, Alert(TRUE))
    /\ NextTarget
    /\ UNCHANGED << configVars, proc, mainVars, done, framesRead, frame,
                    dedupVars, sinceAlert, logged >>

\* src/main.go:183, src/unnamed/part_000:126: outside the band.
NoMatch ==
    /\ InLoop
    /\ ~Within
    /\ NextTarget
    /\ UNCHANGED << configVars, proc, mainVars, done, framesRead, frame,
                    dedupVars, sinceAlert, alerts, logged >>

\* A poll that finds a value in the channel of every timer that has expired.
PollTimerClearsExpired ==
    /\ proc = "running" /\ readerPc = "poll"
    /\ alertEmitted' = (alertEmitted /\ alertTimer.armed)
    /\ readerPc' = "read"
    /\ UNCHANGED << configVars, proc, mainVars, done, framesRead, frame, ti,
                    lastSymbol, alertTimer, callbacks, armedTimers, sinceAlert,
                    alerts, logged >>

\* src/main.go:209-213: the non-blocking receive from alertTimer.C.
PollTimer ==
    /\ proc = "running" /\ readerPc = "poll"
    /\ IF alertTimer.chan = "ready"
       THEN alertEmitted' = FALSE /\ alertTimer' = [alertTimer EXCEPT !.chan = "empty"]
       ELSE UNCHANGED << alertEmitted, alertTimer >>
    /\ readerPc' = "read"
    /\ UNCHANGED << configVars, proc, mainVars, done, framesRead, frame, ti,
                    lastSymbol, callbacks, armedTimers, sinceAlert, alerts, logged >>

\* ------------------------------------------------------------------------
\* The cool-down timer (variant A) and the clock
\* ------------------------------------------------------------------------
\* The runtime fires the armed timer: an AfterFunc timer starts its callback
\* in a goroutine of its own, a channel timer sends on its channel.
TimerFire ==
    /\ proc = "running"
    /\ alertTimer.armed /\ alertTimer.remaining = 0
    /\ armedTimers' = armedTimers - 1
    /\ IF alertTimer.kind = "afterfunc"
       THEN /\ callbacks' = callbacks + 1
            /\ alertTimer' = [alertTimer EXCEPT !.armed = FALSE]
       ELSE /\ alertTimer' = [alertTimer EXCEPT !.armed = FALSE, !.chan = "ready"]
            /\ UNCHANGED callbacks
    /\ UNCHANGED << configVars, proc, mainVars, done, readerVars,
                    alertEmitted, lastSymbol, sinceAlert, alerts, logged >>

\* A callback that leaves the flag as it finds it.
TimerCallbackKeeps(emitted) == emitted

\* src/main.go:193-195: the function handed to AfterFunc; the flag it leaves.
TimerCallback(emitted) == FALSE

\* The callback of a fired timer runs, in its own goroutine.
CallbackRun ==
    /\ proc = "running"
    /\ callbacks > 0
    /\ callbacks' = callbacks - 1
    /\ alertEmitted' = TimerCallback(alertEmitted)
    /\ UNCHANGED << configVars, proc, mainVars, done, readerVars,
                    lastSymbol, alertTimer, armedTimers, sinceAlert, alerts, logged >>

\* One clock tick passes; a timer that is due fires before the next tick.
Tick ==
    /\ proc = "running"
    /\ ~(alertTimer.armed /\ alertTimer.remaining = 0)
    /\ alertTimer.armed \/ \E s \in FeedSymbols : sinceAlert[s] < Cooldown
    /\ alertTimer' = IF alertTimer.armed
                     THEN [alertTimer EXCEPT !.remaining = @ - 1] ELSE alertTimer
    /\ sinceAlert' = [s \in FeedSymbols |->
                        IF sinceAlert[s] < Cooldown THEN sinceAlert[s] + 1 ELSE Cooldown]
    /\ UNCHANGED << configVars, proc, mainVars, done, readerVars,
                    alertEmitted, lastSymbol, callbacks, armedTimers, alerts, logged >>

ReadFrame ==
    \E f \in Frames :
        \/ ReadIgnored(f)
        \/ ReadBadPrice(f)
        \/ ReadUnconfigured(f)
        \/ ReadTrade(f)

Next ==
    \/ Startup
    \/ Dial
    \/ Subscribe
    \/ StartReader
    \/ MainShutdown
    \/ MainExit
    \/ Crash
    \/ Signal
    \/ ReadError
    \/ ReadUndecodable
    \/ ReadFrame
    \/ EmitAlert
    \/ sendTelegramChats
    \/ SuppressAlert
    \/ LogAlert
    \/ NoMatch
    \/ PollTimer
    \/ TimerFire
    \/ CallbackRun
    \/ Tick

Spec == Init /\ [][Next]_vars

FairSpec ==
    Spec /\ WF_vars(Tick) /\ WF_vars(TimerFire) /\ WF_vars(CallbackRun)

\* main, blocked in the receive from done, is scheduled once the receive can
\* proceed, and the runtime ends a process whose main has returned or whose
\* reader has panicked.
ShutdownSpec ==
    Spec /\ WF_vars(MainShutdown) /\ WF_vars(MainExit) /\ WF_vars(Crash)

\* ------------------------------------------------------------------------
\* The threshold test on its own: the reader has read its first frame, a
\* trade of a configured symbol whose price lies at or next to an end of a
\* band of that symbol (or is one of the prices of the end-to-end scenarios),
\* and runs the loop over the symbol's targets.  The flag is clear when the
\* loop starts and no price lies within two bands of one symbol, so that no
\* alert is suppressed here.
\* ------------------------------------------------------------------------
ThresholdInit ==
    /\ variant \in {"A", "B"}
    /\ priceTargets = IF variant = "A" THEN priceTargetsA ELSE priceTargetsB
    /\ proc = "running"
    /\ mainPc = "wait"
    /\ bot = IF variant = "A" THEN "client" ELSE "unset"
    /\ dials = 1
    /\ conn = "open"
    /\ subscribes = 1
    /\ subscribed = "yes"
    /\ wire = [path |-> Assets(Symbols), out |-> <<SubscribeMessage(Assets(Symbols))>>]
    /\ done = [buf |-> 0, closed |-> FALSE]
    /\ readerPc = "targets"
    /\ framesRead = 1
    /\ \E s \in DOMAIN priceTargets :
         \E p \in (ListBandPrices(priceTargets[s]) \cup TestPrices) \cap ValidPrices :
            frame = Trade(TradeEvent, s, p)
    /\ ti = 1
    /\ alertEmitted = FALSE
    /\ lastSymbol = ""
    /\ alertTimer = DrainedTimer
    /\ callbacks = 0
    /\ armedTimers = 0
    /\ sinceAlert = [s \in FeedSymbols |-> Cooldown]
    /\ alerts = <<>>
    /\ logged = NoLines

ThresholdNext ==
    \/ EmitAlert
    \/ sendTelegramChats
    \/ LogAlert
    \/ NoMatch

ThresholdSpec == ThresholdInit /\ [][ThresholdNext]_vars

\* ------------------------------------------------------------------------
\* Properties
\* ------------------------------------------------------------------------
\* The alerts of the frame being processed that went out: the notifier has
\* gone through every destination.
Delivered(a) == a.emitted /\ a.sent = chatIds

\* A step of the reader goroutine out of the loop over the targets.
LoopStep == << readerPc, ti >>' # << readerPc, ti >>

\* The reader comes back from the notifier.
NotifierReturns == readerPc = "send" /\ readerPc' \notin {"send", "panicSend"}

\* C1 (as claimed): in variant A, an alert for a symbol is never delivered
\* less than one minute after the previous alert for that symbol, whatever
\* ticks arrived in between.
C1_NoRepeatWithinCooldown ==
    variant = "A" =>
        \A i \in DOMAIN alerts : Delivered(alerts[i]) => alerts[i].since = Cooldown

\* C2: in variant A, when the target under test is within the band, the flag
\* is set and the last alerted symbol is another symbol, the reader's step
\* emits the alert: it records the tick's symbol as the last alerted one,
\* keeps the flag set, arms a fresh one-minute timer and calls the notifier;
\* and when the notifier returns the alert of another symbol, it has gone
\* through every destination.
C2_OtherSymbolDelivered ==
    [][ /\ (variant = "A" /\ InLoop /\ Within /\ alertEmitted
                /\ lastSymbol # frame.Symbol /\ LoopStep)
            => /\ alerts' = Append(alerts,
                     [Symbol |-> frame.Symbol, target |-> ti, flag |-> TRUE,
                      last |-> lastSymbol, since |-> sinceAlert[frame.Symbol],
                      emitted |-> TRUE, sent |-> <<>>, failed |-> 0])
               /\ readerPc' = "send"
               /\ alertEmitted'
               /\ lastSymbol' = frame.Symbol
               /\ alertTimer' = AfterFunc(Cooldown)
        /\ (variant = "A" /\ NotifierReturns /\ alerts[Len(alerts)].flag
                /\ alerts[Len(alerts)].last # frame.Symbol)
            => Delivered(alerts'[Len(alerts)]) ]_vars

C2_Witness ==
    /\ variant = "A"
    /\ proc = "running"
    /\ \E i \in DOMAIN alerts :
          /\ Delivered(alerts[i])
          /\ alerts[i].flag
          /\ alerts[i].last \notin {"", alerts[i].Symbol}
          /\ lastSymbol = alerts[i].Symbol

\* C3: in variant A the suppression ends: once the flag is set, the timer
\* fires and its callback clears the flag (unless the process ends first),
\* and a tick within a band that finds the flag cleared is emitted as a new
\* alert, also for the symbol alerted last, and has gone through every
\* destination when the notifier returns.
C3_SuppressionEnds ==
    /\ (variant = "A" /\ alertEmitted /\ proc = "running")
          ~> (~alertEmitted \/ proc # "running")
    /\ [][ /\ (variant = "A" /\ InLoop /\ Within /\ ~alertEmitted /\ LoopStep)
               => /\ alerts' = Append(alerts,
                        [Symbol |-> frame.Symbol, target |-> ti, flag |-> FALSE,
                         last |-> lastSymbol, since |-> sinceAlert[frame.Symbol],
                         emitted |-> TRUE, sent |-> <<>>, failed |-> 0])
                  /\ readerPc' = "send"
                  /\ alertEmitted'
                  /\ alertTimer' = AfterFunc(Cooldown)
           /\ (variant = "A" /\ NotifierReturns /\ ~alerts[Len(alerts)].flag)
               => Delivered(alerts'[Len(alerts)]) ]_vars

C3_Witness ==
    /\ variant = "A"
    /\ proc = "running"
    /\ \E i \in DOMAIN alerts :
          /\ Delivered(alerts[i])
          /\ ~alerts[i].flag
          /\ alerts[i].last = alerts[i].Symbol
          /\ alerts[i].since = Cooldown

\* 0.99*T <= P <= 1.01*T over the rationals, for the number P that readFloat
\* reads as d from a string of len characters and the target literal t =
\* <<n, k>>.  P is digits * b^-scale for b = 10, or b = 2 when the string is
\* hexadecimal; an infinity and a NaN are outside every band.
ExactIn(d, len, t) ==
    LET up          == IF d.scale < 0 THEN 0 - d.scale ELSE 0
        dn          == IF d.scale > 0 THEN d.scale ELSE 0
        Scale(x, k) == IF d.hex THEN BigShiftLeft(x, k) ELSE MulPow10(x, k)
        price100    == MulPow10(Scale(BigMulSmall(d.digits, 100), up), t[2])
        low         == Scale(BigFromInt(99 * t[1]), dn)
        high        == Scale(BigFromInt(101 * t[1]), dn)
    IN  /\ d.ok /\ d.n = len /\ ~d.neg
        /\ BigCmp(low, price100) <= 0 /\ BigCmp(price100, high) <= 0

ExactWithin(s, t) == ExactIn(ReadDecimal(s), Len(s), t)

\* C4 (as claimed): isWithinThreshold(P, T) is true exactly when
\* 0.99*T <= P <= 1.01*T, both ends included.
C4_ExactBand ==
    InLoop => (Within <=> ExactWithin(frame.Price, targets[ti]))

Unconfigured(f) ==
    f.kind = "json" /\ IsTrade(f) /\ ~ParsedPrice[f.Price].err /\ f.Symbol \notin Symbols

\* C5: a trade of a symbol without targets writes the informational log line
\* and nothing else: no alert is raised while it is processed, and neither
\* the step that reads it nor the timer poll that follows (variant A) changes
\* the flag, the last alerted symbol or the timer.
C5_UnconfiguredOnlyLogs ==
    /\ [](Unconfigured(frame) => alerts = <<>>)
    /\ [][ /\ (framesRead' = framesRead + 1 /\ Unconfigured(frame'))
               => /\ logged' = [NoLines EXCEPT !.info = 1]
                  /\ proc' = proc
                  /\ UNCHANGED << alertEmitted, lastSymbol, alertTimer, callbacks >>
           /\ (Unconfigured(frame) /\ readerPc = "poll" /\ readerPc' # "poll")
               => UNCHANGED << alertEmitted, lastSymbol, alertTimer, callbacks,
                               alerts, logged >> ]_vars

C5_Witness ==
    /\ variant = "A"
    /\ proc = "running"
    /\ Unconfigured(frame)
    /\ readerPc = "read"
    /\ logged.info = 1
    /\ alertEmitted
    /\ alertTimer.armed

\* The targets among the first n of the frame's symbol that the price matches.
MatchingTargets(n) ==
    SelectSeq([i \in 1..n |-> i], LAMBDA i : WithinBand[<<frame.Price, targets[i]>>])

Configured(f) ==
    f.kind = "json" /\ IsTrade(f) /\ ~ParsedPrice[f.Price].err /\ f.Symbol \in Symbols

\* The targets of the frame the loop has dealt with so far.
TargetsTested ==
    IF readerPc = "targets" THEN ti - 1
    ELSE IF readerPc \in {"send", "panicSend"} THEN ti
    ELSE Len(targets)

\* C6: the alerts raised by a tick are its matching targets, one alert per
\* matching target and in the order of the target list: while the loop runs,
\* those among the targets tested so far, and when it has ended, all K of
\* them; in variant B every one of them is an alert log entry.
C6_CandidatesAreMatches ==
    Configured(frame) =>
        /\ [i \in DOMAIN alerts |-> alerts[i].target] = MatchingTargets(TargetsTested)
        /\ variant = "B" => \A i \in DOMAIN alerts : alerts[i].emitted

C6_Witness ==
    /\ variant = "B"
    /\ Configured(frame)
    /\ readerPc = "read"
    /\ Len(targets) = 3
    /\ Len(alerts) = 1
    /\ alerts[1].target = 2 /\ alerts[1].emitted

\* C7: a trade whose price does not parse is dropped: the step that reads it
\* logs the error, raises no alert, changes no suppression state, and leaves
\* the process running with the reader back at the read of the next frame.
C7_BadPriceDropped ==
    [][ (framesRead' = framesRead + 1 /\ frame'.kind = "json" /\ IsTrade(frame')
            /\ ParsedPrice[frame'.Price].err)
        => /\ alerts' = <<>>
           /\ logged' = [NoLines EXCEPT !.priceErr = 1]
           /\ UNCHANGED << alertEmitted, lastSymbol, alertTimer, callbacks >>
           /\ proc' = "running"
           /\ readerPc' = "read" ]_vars

C7_Witness ==
    /\ proc = "running"
    /\ readerPc = "read"
    /\ frame.kind = "json" /\ IsTrade(frame) /\ ParsedPrice[frame.Price].err
    /\ logged.priceErr = 1
    /\ alerts = <<>>
    /\ framesRead > 1
    /\ lastSymbol = frame.Symbol

\* C8 (as claimed): in variant B a frame that does not decode is logged and
\* skipped: the reader does not panic and the process goes on.
C8_VariantBSkipsUndecodable ==
    variant = "B" => (readerPc # "panicDecode" /\ proc # "panicDecode")

\* C9 (as claimed): in variant A the notifier goes through the destinations
\* in list order, once each; when it has returned the alert has gone to every
\* destination; and no delivery ends the processing.
C9_FanOutComplete ==
    variant = "A" =>
        /\ readerPc # "panicSend"
        /\ \A i \in DOMAIN alerts :
              /\ alerts[i].sent = SubSeq(chatIds, 1, Len(alerts[i].sent))
              /\ (alerts[i].emitted /\ (i < Len(alerts) \/ readerPc # "send"))
                    => alerts[i].sent = chatIds

\* C10: a failed dial or a failed write of the SUBSCRIBE message ends the
\* process at once: the reader was not started, no frame was read, no alert
\* was raised; Dial is called at most once, and the reader runs only on an
\* open connection whose SUBSCRIBE message was written.
C10_ConnectFailureIsFatal ==
    /\ (conn = "failed" \/ subscribed = "failed")
          => /\ proc = "fatal"
             /\ readerPc = "idle"
             /\ framesRead = 0
             /\ alerts = <<>>
             /\ ~alertEmitted /\ lastSymbol = ""
    /\ dials <= 1
    /\ readerPc # "idle" => (conn \in {"open", "closed"} /\ subscribed = "yes")

C10_Witness ==
    /\ proc = "fatal"
    /\ conn = "open"
    /\ subscribed = "failed"
    /\ dials = 1

\* C11 (as claimed): once the reader runs, main ends only when a signal is in
\* done or the reader goroutine has ended; a failed read makes the reader
\* return; the reader that has returned stays so and nothing is dialled
\* again; and once the reader has returned, main eventually ends.
C11_ShutdownTriggers ==
    /\ [][ (mainPc = "wait" /\ mainPc' = "end")
              => (done.buf > 0 \/ readerPc = "returned" \/ Panicking) ]_vars
    /\ [][ (frame'.kind = "error" /\ frame.kind # "error")
              => (readerPc' = "returned" /\ done'.closed) ]_vars
    /\ [][ readerPc = "returned"
              => (readerPc' = "returned" /\ dials' = dials
                     /\ conn' \in {conn, "closed"}) ]_vars
    /\ (readerPc = "returned") ~> (mainPc = "end")

\* C12: a decoded message whose event type, trimmed, is not "trade" is
\* ignored: the step that reads it raises no alert, writes no log line,
\* leaves the flag, the last alerted symbol and the timer as they were, and
\* leaves the reader at the read of the next frame.
C12_NonTradeIgnored ==
    [][ (framesRead' = framesRead + 1 /\ frame'.kind = "json"
            /\ TrimSpace(frame'.Event) # TradeEvent)
        => /\ alerts' = <<>>
           /\ logged' = NoLines
           /\ UNCHANGED << alertEmitted, lastSymbol, alertTimer, callbacks >>
           /\ proc' = proc
           /\ readerPc' = "read" ]_vars

C12_Witness ==
    /\ variant = "A"
    /\ proc = "running"
    /\ frame.kind = "json" /\ TrimSpace(frame.Event) # TradeEvent
    /\ framesRead > 1
    /\ alertEmitted /\ lastSymbol # ""
    /\ alertTimer.armed

\* C13: at most one connection is dialled and at most one frame is written
\* on it; once the reader runs, exactly one connection was opened (it is
\* closed when main has returned, not before) and exactly one frame has been
\* written, the SUBSCRIBE message, so it was written before any frame was
\* read; its params hold one stream name per configured symbol, and they are
\* the streams of the path that was dialled.
C13_OneSubscription ==
    /\ dials <= 1
    /\ Len(wire.out) <= 1
    /\ Len(wire.out) = subscribes
    /\ readerPc # "idle" =>
          (dials = 1 /\ conn \in {"open", "closed"} /\ Len(wire.out) = 1)
    /\ conn = "closed" => mainPc = "end"
    /\ framesRead > 0 => readerPc # "idle"
    /\ wire.out # <<>> =>
          LET params == wire.out[1].params
          IN  /\ wire.out[1].method = "SUBSCRIBE"
              /\ params = wire.path
              /\ BagToSet(params) = {StreamName(asset) : asset \in Symbols}
              /\ \A name \in BagToSet(params) : CopiesIn(name, params) = 1
              /\ BagCardinality(params) = Cardinality(Symbols)

C13_Witness ==
    /\ proc = "running"
    /\ framesRead = 2
    /\ frame.kind = "json"
    /\ Len(wire.out) = 1
    /\ BagCardinality(wire.out[1].params) = Cardinality(DOMAIN priceTargetsA)
    /\ priceTargets = priceTargetsA

\* A step of the reader goroutine (src/main.go:154-216): a read, a round of
\* the loop over the targets, a delivery of the notifier it calls, or the
\* poll of the timer.  Starting the goroutine is a step of main.
ReaderStep ==
    \/ ReadError
    \/ ReadUndecodable
    \/ ReadFrame
    \/ EmitAlert
    \/ sendTelegramChats
    \/ SuppressAlert
    \/ LogAlert
    \/ NoMatch
    \/ PollTimer

\* C14 (as claimed): in variant A the flag and the last alerted symbol are
\* written by the reader goroutine only: every step that changes one of them
\* is a step of the reader.
C14_OnlyReaderWrites ==
    [][ (variant = "A" /\ << alertEmitted, lastSymbol >>' # << alertEmitted, lastSymbol >>)
        => ReaderStep ]_vars

\* The cool-down timer has fired: it was armed by an alert and is armed no
\* longer.
TimerHasFired == alertTimer.kind = "afterfunc" /\ ~alertTimer.armed

\* C15 (as claimed): in variant A, when the reader's poll of the timer finds
\* that the timer has fired, the flag is false when the poll, and with it the
\* processing of the tick, ends.
C15_PollClearsFiredTimer ==
    [][ (variant = "A" /\ readerPc = "poll" /\ readerPc' = "read" /\ TimerHasFired)
        => ~alertEmitted' ]_vars

\* C16 (as claimed): in variant A the handle that a delivery call reads holds
\* an initialized client, also when the initialization at startup failed: the
\* notifier is not called with another handle and no delivery call panics.
C16_BotInitialized ==
    (variant = "A" /\ readerPc \in {"send", "panicSend"})
        => (bot = "client" /\ readerPc # "panicSend")

\* C17 (as claimed): in variant A the flag set by an alert stays set until the
\* timer armed by that alert fires: while the timer of the last alert is
\* armed, the flag is set.
C17_FlagHeldUntilOwnTimer ==
    (variant = "A" /\ alertTimer.kind = "afterfunc" /\ alertTimer.armed)
        => alertEmitted

\* C18: in variant A never more than one timer is armed, the armed timer is
\* the one alertTimer refers to, and while the flag is set a timer is armed
\* or the callback of a fired timer has yet to run.
C18_OneTimerArmed ==
    variant = "A" =>
        /\ armedTimers <= 1
        /\ armedTimers = 1 <=> alertTimer.armed
        /\ alertEmitted => (armedTimers = 1 \/ callbacks > 0)

C18_Witness ==
    /\ variant = "A"
    /\ proc = "running"
    /\ alertEmitted
    /\ armedTimers = 1
    /\ callbacks = 1
    /\ \E i \in DOMAIN alerts : Delivered(alerts[i]) /\ alerts[i].flag

\* The tick being processed has delivered an alert, or is delivering it.
AlertedInTick ==
    /\ proc = "running" /\ readerPc \in {"targets", "send"}
    /\ \E j \in DOMAIN alerts : alerts[j].emitted

C20_NoSendOnClosedDone ==
    proc # "panicSignal"

====
